---- MODULE Spec2Model ----
(***************************************************************************)
(* Model of VineHelper's notification pipeline:                            *)
(*   - ItemsMgr (scripts/notification_monitor/ItemsMgr.js, lines 1-224):   *)
(*     the catalog of items, its merge, sort and unavailable handling;     *)
(*   - the service worker that follows it in the same file (lines          *)
(*     226-1053): dataBuffering, the websocket handlers, the auto-load     *)
(*     reload timers.                                                      *)
(* JavaScript values are modelled by tagged records so that null,          *)
(* undefined, "", 0 and false stay distinct values, as they are for ===,   *)
(* while truthiness (|| and !) is computed as JavaScript computes it.      *)
(***************************************************************************)
EXTENDS Integers, Sequences, FiniteSets, TLC

VARIABLES
    items,          \* ItemsMgr.items: the Map, as the sequence of its entries in iteration order
    imageUrls,      \* ItemsMgr.imageUrls
    sortType,       \* Settings.get("notification.monitor.sortType")
    hideDuplicateThumbnail, \* Settings.get("notification.monitor.hideDuplicateThumbnail")
    clock,          \* what new Date() returns
    ret,            \* the last ItemsMgr call and what it returned
    markedAbsent,   \* history: ids for which markItemUnavailable ran while the id was absent
    marked,         \* history: ids marked unavailable by markItemUnavailable since their creation
    supplied,       \* history: per id, what the addItemData calls supplied since its creation
    fetch100,       \* service worker: true while a snapshot is being buffered
    dataBuffer,     \* service worker: the buffered messages
    sent,           \* the sendMessageToAllTabs calls of the handler that ran last, in order
    handler,        \* the socket handler that ran last (or is running)
    arrProducts,    \* processLast100Items: its argument, once sorted
    loopIndex,      \* processLast100Items: i of its loop, counted from 1; 0 when the loop is over
    timers,         \* the pending setTimeout timers: [id, kind, left], left in minutes
    reloadTimer,    \* service worker: the handle in reloadTimer, 0 for null
    displayTimer,   \* service worker: the handle in displayTimer, 0 for null
    awaiting,       \* the setReloadTimer calls suspended at await findMonitorTab
    cooldownLeft,   \* history: minutes left of the cooldown the last forced pause asked for
    timerEvent,     \* history: what the last step of the scheduler did
    pauses,         \* history: the forced-pause signals received so far
    sockets,        \* the sockets io.connect made that are not garbage: [id, state]
    socket,         \* service worker: the id of the socket in `socket`, 0 for undefined
    socket_connecting, \* service worker: socket_connecting
    active,         \* Settings.get("notification.active")
    country,        \* i13n.getCountryCode(): "" for null
    connEvent,      \* history: the last step of the connection code
    hourStart,      \* Settings.get("notification.autoload.hourStart"), split and converted: [h, m]
    hourEnd,        \* Settings.get("notification.autoload.hourEnd"), split and converted: [h, m]
    timeOfDay,      \* the time of day new Date() gives isTimeWithinRange, in minutes
    withinRange,    \* history: what the last isTimeWithinRange() returned
    autoloadMin,    \* Settings.get("notification.autoload.min"), 0 for a falsy value
    autoloadMax,    \* Settings.get("notification.autoload.max"), 0 for a falsy value
    settings,       \* SettingsMgr: #settings, the value at each setting path
    storage,        \* chrome.storage.local: the stored settings
    setCalls,       \* the SettingsMgr.set calls suspended at chrome.storage.local.get, oldest first
    lastSet         \* history: per path, the value of the last set call that went on to write

itemVars == <<items, imageUrls, sortType, hideDuplicateThumbnail, clock, ret,
              markedAbsent, marked, supplied>>

bufferVars == <<fetch100, dataBuffer, sent, handler, arrProducts, loopIndex>>

timerVars == <<timers, reloadTimer, displayTimer, awaiting, cooldownLeft, timerEvent, pauses>>

connVars == <<sockets, socket, socket_connecting, active, country, connEvent>>

windowVars == <<hourStart, hourEnd, timeOfDay, withinRange>>

autoloadVars == <<autoloadMin, autoloadMax>>

mgrVars == <<settings, storage, setCalls, lastSet>>

vars == <<itemVars, bufferVars, timerVars, connVars, windowVars, autoloadVars, mgrVars>>

\* What the ItemsMgr calls leave alone, and what the service worker's buffer does
nonItemVars == <<bufferVars, timerVars, connVars, windowVars, autoloadVars, mgrVars>>
nonBufferVars == <<itemVars, timerVars, connVars, windowVars, autoloadVars, mgrVars>>
nonTimerVars == <<itemVars, bufferVars, connVars, windowVars, autoloadVars, mgrVars>>
nonConnVars == <<itemVars, bufferVars, timerVars, windowVars, autoloadVars, mgrVars>>
nonWindowVars == <<itemVars, bufferVars, timerVars, connVars, autoloadVars, mgrVars>>

-----------------------------------------------------------------------------
(* JavaScript values *)

Undef == [undef |-> TRUE]
Null == [null |-> TRUE]
Num(n) == [num |-> n]
Str(s) == [str |-> s]
Bool(b) == [bool |-> b]

IsNum(v) == "num" \in DOMAIN v

\* ToBoolean(v) = false: what `!v` tests and what `v || d` replaces by d
Falsy(v) == v \in {Undef, Null, Num(0), Str(""), Bool(FALSE)}

\* v || d
OrElse(v, d) == IF Falsy(v) THEN d ELSE v

-----------------------------------------------------------------------------
(* Bounds of the model *)

MaxEtv == 2
MaxClock == 1

ASINS == {"A", "B"}
Elements == {"el1", "el2"}
Dates == {1, 2}
EtvNums == 0..MaxEtv

TYPE_DATE_ASC == "date_asc"
TYPE_DATE_DESC == "date_desc"
TYPE_PRICE_DESC == "price_desc"
TYPE_PRICE_ASC == "price_asc"
SortTypes == {TYPE_DATE_ASC, TYPE_DATE_DESC, TYPE_PRICE_DESC, TYPE_PRICE_ASC}

\* The keys an item's data object can hold in this model
DataFields == {"date", "title", "tier", "etv_min", "etv_max", "unavailable", "img_url", "dateAdded"}

-----------------------------------------------------------------------------
(* ItemsMgr: the Map and its lookups *)

Has(its, asin) == \E i \in 1..Len(its) : its[i].asin = asin

IndexOf(its, asin) == CHOOSE i \in 1..Len(its) : its[i].asin = asin

Get(its, asin) == its[IndexOf(its, asin)]

\* Map.set: an existing key keeps its position, a new key is appended
MapSet(its, asin, entry) ==
    IF Has(its, asin)
    THEN [its EXCEPT ![IndexOf(its, asin)] = entry]
    ELSE Append(its, entry)

\* Map.delete
\* A delete that removes nothing
MapDelete_Nothing(its, asin) == its

MapDelete(its, asin) ==
    SelectSeq(its, LAMBDA e : e.asin # asin)

Field(its, asin, f) == Get(its, asin).data[f]

-----------------------------------------------------------------------------
(* ItemsMgr.sortItems *)

PRICE_ASC_MISSING == 99999999
PRICE_DESC_MISSING == -1

\* parseFloat(etv_min || missing), for the values etv_min takes here
PriceKey(v, missing) == OrElse(v, Num(missing)).num

\* The comparator of itemsArray.sort: negative, zero or positive
Compare(a, b, st) ==
    IF st = TYPE_DATE_ASC THEN a.data.date.num - b.data.date.num
    ELSE IF st = TYPE_DATE_DESC THEN b.data.date.num - a.data.date.num
    ELSE IF st = TYPE_PRICE_ASC
         THEN PriceKey(a.data.etv_min, PRICE_ASC_MISSING) - PriceKey(b.data.etv_min, PRICE_ASC_MISSING)
    ELSE PriceKey(b.data.etv_min, PRICE_DESC_MISSING) - PriceKey(a.data.etv_min, PRICE_DESC_MISSING)

\* A sort that puts x before the elements it compares equal to
RECURSIVE InsertStable_BeforeEqual(_, _, _)
InsertStable_BeforeEqual(sorted, x, st) ==
    IF sorted = <<>> THEN <<x>>
    ELSE IF Compare(Head(sorted), x, st) < 0
         THEN <<Head(sorted)>> \o InsertStable_BeforeEqual(Tail(sorted), x, st)
         ELSE <<x>> \o sorted

\* Array.prototype.sort is stable: x goes after every element that does not
\* compare greater than it
RECURSIVE InsertStable(_, _, _)
InsertStable(sorted, x, st) ==
    IF sorted = <<>> THEN <<x>>
    ELSE IF Compare(Head(sorted), x, st) <= 0
         THEN <<Head(sorted)>> \o InsertStable(Tail(sorted), x, st)
         ELSE <<x>> \o sorted

RECURSIVE StableSort(_, _)
StableSort(s, st) ==
    IF s = <<>> THEN <<>>
    ELSE InsertStable(StableSort(SubSeq(s, 1, Len(s) - 1), st), s[Len(s)], st)

\* The rebuilt Map: each entry is a new object {data, element}; any other
\* property of the old entry object (tile) is not copied
Rebuilt(e) == [asin |-> e.asin, data |-> e.data, element |-> e.element, tile |-> Undef]

\* A rebuild of the Map that leaves the entries in the order they had
SortItemsOf_Unsorted(its, st) == [i \in 1..Len(its) |-> Rebuilt(its[i])]

SortItemsOf(its, st) ==
    IF Len(its) = 0 THEN its
    ELSE LET arr == StableSort(its, st)
         IN [i \in 1..Len(arr) |-> Rebuilt(arr[i])]

-----------------------------------------------------------------------------
(* ItemsMgr.updateItemETV *)

\* if (!item.data.etv_min || etv < item.data.etv_min) item.data.etv_min = etv
NewEtvMin(cur, etv) ==
    IF Falsy(cur) \/ etv.num < cur.num THEN etv ELSE cur

\* if (!item.data.etv_max || etv > item.data.etv_max) item.data.etv_max = etv
NewEtvMax(cur, etv) ==
    IF Falsy(cur) \/ etv.num > cur.num THEN etv ELSE cur

\* The item object is mutated in place (its tile property stays until sortItems)
WithEtv(e, etv) ==
    [e EXCEPT !.data = [@ EXCEPT !["etv_min"] = NewEtvMin(@, etv),
                                 !["etv_max"] = NewEtvMax(@, etv)]]

UpdateItemETV(asin, etv) ==
    /\ IF ~Has(items, asin)
       THEN /\ items' = items
            /\ ret' = [op |-> "updateItemETV", asin |-> asin, val |-> Bool(FALSE)]
       ELSE /\ items' = SortItemsOf(MapSet(items, asin, WithEtv(Get(items, asin), etv)), sortType)
            /\ ret' = [op |-> "updateItemETV", asin |-> asin, val |-> Bool(TRUE)]
    /\ UNCHANGED <<imageUrls, sortType, hideDuplicateThumbnail, clock, markedAbsent, marked, supplied, nonItemVars>>

(* ItemsMgr.updateItemTier *)

WithTier(e, tier) == [e EXCEPT !.data = [@ EXCEPT !["tier"] = tier]]

\* An update that reports success for an id the catalog does not hold
UpdateItemTier_AbsentTrue(asin, tier) ==
    /\ IF ~Has(items, asin)
       THEN /\ items' = items
            /\ ret' = [op |-> "updateItemTier", asin |-> asin, val |-> Bool(TRUE)]
       ELSE /\ items' = SortItemsOf(MapSet(items, asin, WithTier(Get(items, asin), tier)), sortType)
            /\ ret' = [op |-> "updateItemTier", asin |-> asin, val |-> Bool(TRUE)]
    /\ UNCHANGED <<imageUrls, sortType, hideDuplicateThumbnail, clock, markedAbsent, marked, supplied, nonItemVars>>

UpdateItemTier(asin, tier) ==
    /\ IF ~Has(items, asin)
       THEN /\ items' = items
            /\ ret' = [op |-> "updateItemTier", asin |-> asin, val |-> Bool(FALSE)]
       ELSE /\ items' = SortItemsOf(MapSet(items, asin, WithTier(Get(items, asin), tier)), sortType)
            /\ ret' = [op |-> "updateItemTier", asin |-> asin, val |-> Bool(TRUE)]
    /\ UNCHANGED <<imageUrls, sortType, hideDuplicateThumbnail, clock, markedAbsent, marked, supplied, nonItemVars>>

-----------------------------------------------------------------------------
(* ItemsMgr.addItemData *)

\* itemData is a JavaScript object: a function from the keys it holds to their
\* values. { ...itemData, dateAdded: new Date() }
NewData(itemData, now) ==
    [f \in DataFields |->
        IF f = "dateAdded" THEN Num(now)
        ELSE IF f \in DOMAIN itemData THEN itemData[f]
        ELSE Undef]

\* A merge in which a null or undefined value of itemData overrides nothing
MergedData_KeepNonNull(old, itemData) ==
    [f \in DataFields |->
        IF f \in DOMAIN itemData /\ itemData[f] \notin {Null, Undef} THEN itemData[f] ELSE old[f]]

\* { ...existing.data, ...itemData }: every key itemData holds overrides, whatever
\* its value (null and undefined included); the other keys keep the old value
MergedData(old, itemData) ==
    [f \in DataFields |-> IF f \in DOMAIN itemData THEN itemData[f] ELSE old[f]]

\* The empty string kept as it is
EmptyToNull_Kept(v) == v

\* if (data.etv_min === "") data.etv_min = null, and the same for etv_max
EmptyToNull(v) == IF v = Str("") THEN Null ELSE v

NormalizedEtv(data) ==
    [data EXCEPT !["etv_min"] = EmptyToNull(@), !["etv_max"] = EmptyToNull(@)]

\* addItemData that stamps dateAdded on every call
AddedEntry_Restamps(its, asin, itemData, now) ==
    IF ~Has(its, asin)
    THEN [asin |-> asin, data |-> NormalizedEtv(NewData(itemData, now)),
          element |-> Null, tile |-> Undef]
    ELSE [asin |-> asin, data |-> [NormalizedEtv(MergedData(Get(its, asin).data, itemData)) EXCEPT !["dateAdded"] = Num(now)],
          element |-> Get(its, asin).element, tile |-> Undef]

AddedEntry(its, asin, itemData, now) ==
    IF ~Has(its, asin)
    THEN [asin |-> asin, data |-> NormalizedEtv(NewData(itemData, now)),
          element |-> Null, tile |-> Undef]
    ELSE [asin |-> asin, data |-> NormalizedEtv(MergedData(Get(its, asin).data, itemData)),
          element |-> Get(its, asin).element, tile |-> Undef]

\* A status that is true on every call
AddedStatus_Always(its, asin) == Bool(TRUE)

\* addedStatus: true in the branch of !this.items.has(asin)
AddedStatus(its, asin) == Bool(~Has(its, asin))

\* if (itemData.img_url && hideDuplicateThumbnail) this.imageUrls.add(itemData.img_url)
AddedImageUrls(urls, itemData, hide) ==
    IF "img_url" \in DOMAIN itemData /\ ~Falsy(itemData["img_url"]) /\ hide
    THEN urls \cup {itemData["img_url"]}
    ELSE urls

\* History of what the addItemData calls supplied since the creation of a
\* record. For "title": last is the value of the last call that held the key,
\* lastNonNull the last one that was neither null nor undefined. For
\* "unavailable": whether a call supplied true.
SuppliedAfter(old, itemData) ==
    [last |-> IF "title" \in DOMAIN itemData THEN itemData["title"] ELSE old.last,
     lastNonNull |-> IF "title" \in DOMAIN itemData /\ itemData["title"] \notin {Null, Undef}
                     THEN itemData["title"] ELSE old.lastNonNull,
     unavailable |-> \/ old.unavailable
                     \/ "unavailable" \in DOMAIN itemData /\ itemData["unavailable"] = Bool(TRUE)]

NoneSupplied == [last |-> Undef, lastNonNull |-> Undef, unavailable |-> FALSE]

\* The ETV bounds a call of addItemData supplies as ""
EmptyEtv(itemData) ==
    {f \in {"etv_min", "etv_max"} : f \in DOMAIN itemData /\ itemData[f] = Str("")}

AddItemData(asin, itemData) ==
    /\ items' = SortItemsOf(MapSet(items, asin, AddedEntry(items, asin, itemData, clock)), sortType)
    /\ imageUrls' = AddedImageUrls(imageUrls, itemData, hideDuplicateThumbnail)
    /\ ret' = [op |-> "addItemData", asin |-> asin, val |-> AddedStatus(items, asin),
               emptyEtv |-> EmptyEtv(itemData)]
    /\ supplied' = [supplied EXCEPT ![asin] =
                        SuppliedAfter(IF Has(items, asin) THEN @ ELSE NoneSupplied, itemData)]
    /\ UNCHANGED <<sortType, hideDuplicateThumbnail, clock, markedAbsent, marked, nonItemVars>>

-----------------------------------------------------------------------------
(* ItemsMgr.storeItemDOMElement, markItemUnavailable, removeAsin *)

Thrown == [throw |-> "not found in items map"]

\* item.element = element; item.tile = new Tile(element, null)
WithElement(e, element) == [e EXCEPT !.element = Str(element), !.tile = Str(element)]

\* return item.data.unavailable === true
WasUnavailable(e) == Bool(e.data["unavailable"] = Bool(TRUE))

StoreItemDOMElement(asin, element) ==
    /\ IF Has(items, asin)
       THEN /\ items' = MapSet(items, asin, WithElement(Get(items, asin), element))
            /\ ret' = [op |-> "storeItemDOMElement", asin |-> asin,
                       val |-> WasUnavailable(Get(items, asin))]
       ELSE /\ items' = items
            /\ ret' = [op |-> "storeItemDOMElement", asin |-> asin, val |-> Thrown]
    /\ UNCHANGED <<imageUrls, sortType, hideDuplicateThumbnail, clock, markedAbsent, marked, supplied, nonItemVars>>

\* getItemDOMElement: this.items.get(asin)?.element
GetItemDOMElement(its, asin) == IF Has(its, asin) THEN Get(its, asin).element ELSE Undef

\* getItemTile: this.items.get(asin)?.tile
GetItemTile(its, asin) == IF Has(its, asin) THEN Get(its, asin).tile ELSE Undef

WithUnavailable(e) == [e EXCEPT !.data = [@ EXCEPT !["unavailable"] = Bool(TRUE)]]

\* Nothing at all is recorded when the id is absent
MarkedItems(its, asin) ==
    IF Has(its, asin) THEN MapSet(its, asin, WithUnavailable(Get(its, asin))) ELSE its

MarkItemUnavailable(asin) ==
    /\ items' = MarkedItems(items, asin)
    /\ ret' = [op |-> "markItemUnavailable", asin |-> asin, val |-> Undef]
    /\ marked' = IF Has(items, asin) THEN marked \cup {asin} ELSE marked
    /\ markedAbsent' = IF Has(items, asin) THEN markedAbsent ELSE markedAbsent \cup {asin}
    /\ UNCHANGED <<imageUrls, sortType, hideDuplicateThumbnail, clock, supplied, nonItemVars>>

RemoveAsin(asin) ==
    /\ items' = MapDelete(items, asin)
    /\ ret' = [op |-> "removeAsin", asin |-> asin, val |-> Undef]
    /\ marked' = marked \ {asin}
    /\ markedAbsent' = markedAbsent \ {asin}
    /\ supplied' = [supplied EXCEPT ![asin] = NoneSupplied]
    /\ UNCHANGED <<imageUrls, sortType, hideDuplicateThumbnail, clock, nonItemVars>>

\* sortItems called by the monitor itself (after the sort type was changed)
SortItems ==
    /\ items' = SortItemsOf(items, sortType)
    /\ ret' = [op |-> "sortItems", asin |-> "", val |-> Undef]
    /\ UNCHANGED <<imageUrls, sortType, hideDuplicateThumbnail, clock, markedAbsent, marked, supplied, nonItemVars>>

\* The user picks another sort type in the settings
SetSortType(st) ==
    /\ sortType # st
    /\ sortType' = st
    /\ ret' = [op |-> "setSortType", asin |-> "", val |-> Undef]
    /\ UNCHANGED <<items, imageUrls, hideDuplicateThumbnail, clock, markedAbsent, marked, supplied, nonItemVars>>

\* The user switches the duplicate-thumbnail option
SetHideDuplicateThumbnail(b) ==
    /\ hideDuplicateThumbnail # b
    /\ hideDuplicateThumbnail' = b
    /\ ret' = [op |-> "setHideDuplicateThumbnail", asin |-> "", val |-> Undef]
    /\ UNCHANGED <<items, imageUrls, sortType, clock, markedAbsent, marked, supplied, nonItemVars>>

\* Time passes: new Date() gives a later time
Tick ==
    /\ clock < MaxClock
    /\ clock' = clock + 1
    /\ ret' = [op |-> "tick", asin |-> "", val |-> Undef]
    /\ UNCHANGED <<items, imageUrls, sortType, hideDuplicateThumbnail, markedAbsent, marked, supplied, nonItemVars>>

-----------------------------------------------------------------------------
(* Service worker: dataBuffering and the handlers of the socket's events *)

MaxProducts == 3

Sentinel == [type |-> "fetchRecentItemsEnd"]

\* sendMessageToAllTabs(data): posted on the broadcast channel at once (the
\* same object then goes to every Vine tab)
Posted(out, data) == Append(out, data)

\* dataBuffering with the sentinel tested before the push: the batch is what was
\* buffered before it
DataBuffering_SentinelNotPushed(state, data) ==
    IF ~state.fetch100
    THEN [state EXCEPT !.sent = Posted(@, data)]
    ELSE IF data.type = "fetchRecentItemsEnd"
         THEN [fetch100 |-> FALSE,
               dataBuffer |-> <<>>,
               sent |-> Posted(state.sent, [type |-> "fetch100", data |-> state.dataBuffer])]
         ELSE [state EXCEPT !.dataBuffer = Append(@, data)]

\* dataBuffering without the return of its first branch: what is buffered is
\* posted as well
DataBuffering_ForwardsToo(state, data) ==
    IF data.type = "fetchRecentItemsEnd" /\ state.fetch100
    THEN [fetch100 |-> FALSE,
          dataBuffer |-> <<>>,
          sent |-> Posted(state.sent, [type |-> "fetch100", data |-> Append(state.dataBuffer, data)])]
    ELSE [state EXCEPT !.sent = Posted(@, data),
                       !.dataBuffer = IF state.fetch100 THEN Append(@, data) ELSE @]

\* dataBuffering that keeps what it posts in passthrough state in dataBuffer too
DataBuffering_StoresInPassthrough(state, data) ==
    IF ~state.fetch100
    THEN [state EXCEPT !.sent = Posted(@, data), !.dataBuffer = Append(@, data)]
    ELSE IF data.type = "fetchRecentItemsEnd"
         THEN [fetch100 |-> FALSE,
               dataBuffer |-> <<>>,
               sent |-> Posted(state.sent, [type |-> "fetch100", data |-> Append(state.dataBuffer, data)])]
         ELSE [state EXCEPT !.dataBuffer = Append(@, data)]

\* dataBuffering(data): the state it leaves, as [fetch100, dataBuffer, sent]
DataBuffering(state, data) ==
    IF ~state.fetch100
    THEN [state EXCEPT !.sent = Posted(@, data)]
    ELSE IF data.type = "fetchRecentItemsEnd"
         THEN [fetch100 |-> FALSE,
               dataBuffer |-> <<>>,
               sent |-> Posted(state.sent, [type |-> "fetch100", data |-> Append(state.dataBuffer, data)])]
         ELSE [state EXCEPT !.dataBuffer = Append(@, data)]

\* myStream.input(data): the stream hands what it is given to the function bound
\* with broadcastFunction, which is dataBuffering, before it returns
StreamInput(state, data) == DataBuffering(state, data)

BufferState == [fetch100 |-> fetch100, dataBuffer |-> dataBuffer, sent |-> sent]

\* A handler starts: what the previous one posted is forgotten
Starting == [fetch100 |-> fetch100, dataBuffer |-> dataBuffer, sent |-> <<>>]

SetBufferState(state) ==
    /\ fetch100' = state.fetch100
    /\ dataBuffer' = state.dataBuffer
    /\ sent' = state.sent

\* No handler runs while processLast100Items does: it is one synchronous run
Idle == handler # "last100"

LiveItem(asin) == [type |-> "newItem", index |-> 0, asin |-> asin, reason |-> "live"]

\* socket.on("newItem")
OnNewItem(asin) ==
    /\ Idle
    /\ SetBufferState(StreamInput(Starting, LiveItem(asin)))
    /\ handler' = "newItem"
    /\ arrProducts' = <<>>
    /\ UNCHANGED <<loopIndex, nonBufferVars>>

\* socket.on("newETV"): the message and the hook message, both posted directly
OnNewETV(asin, etv) ==
    /\ Idle
    /\ SetBufferState([Starting EXCEPT !.sent =
            Posted(Posted(@, [type |-> "newETV", asin |-> asin, etv |-> etv]),
                   [type |-> "hookExecute", hookname |-> "newItemETV", asin |-> asin, etv |-> etv])])
    /\ handler' = "newETV"
    /\ arrProducts' = <<>>
    /\ UNCHANGED <<loopIndex, nonBufferVars>>

\* socket.on("newVariants")
OnNewVariants(asin) ==
    /\ Idle
    /\ SetBufferState([Starting EXCEPT !.sent = Posted(@, [type |-> "newVariants", asin |-> asin])])
    /\ handler' = "newVariants"
    /\ arrProducts' = <<>>
    /\ UNCHANGED <<loopIndex, nonBufferVars>>

\* socket.on("unavailableItem")
OnUnavailableItem(asin) ==
    /\ Idle
    /\ SetBufferState([Starting EXCEPT !.sent = Posted(@, [type |-> "unavailableItem", asin |-> asin])])
    /\ handler' = "unavailableItem"
    /\ arrProducts' = <<>>
    /\ UNCHANGED <<loopIndex, nonBufferVars>>

(* processLast100Items *)

\* A sort by dateA - dateB: oldest first
RECURSIVE InsertNewestFirst_OldestFirst(_, _)
InsertNewestFirst_OldestFirst(sorted, x) ==
    IF sorted = <<>> THEN <<x>>
    ELSE IF Head(sorted).date - x.date <= 0
         THEN <<Head(sorted)>> \o InsertNewestFirst_OldestFirst(Tail(sorted), x)
         ELSE <<x>> \o sorted

\* arrProducts.sort((a, b) => dateB - dateA): stable, newest first
RECURSIVE InsertNewestFirst(_, _)
InsertNewestFirst(sorted, x) ==
    IF sorted = <<>> THEN <<x>>
    ELSE IF x.date - Head(sorted).date <= 0
         THEN <<Head(sorted)>> \o InsertNewestFirst(Tail(sorted), x)
         ELSE <<x>> \o sorted

RECURSIVE SortNewestFirst(_)
SortNewestFirst(s) ==
    IF s = <<>> THEN <<>>
    ELSE InsertNewestFirst(SortNewestFirst(SubSeq(s, 1, Len(s) - 1)), s[Len(s)])

\* if (img_url == "" || title == "") continue
Skipped(product) == product.img_url = "" \/ product.title = ""

\* The message of product i (i counted from 0, as in the source)
SnapshotItem(product, i) ==
    [type |-> "newItem", index |-> i, asin |-> product.asin, reason |-> "Fetch latest new items"]

\* socket.on("last100"): processLast100Items up to its loop
OnLast100(products) ==
    /\ Idle
    /\ arrProducts' = SortNewestFirst(products)
    /\ SetBufferState([Starting EXCEPT !.fetch100 = TRUE])
    /\ loopIndex' = Len(products)
    /\ handler' = "last100"
    /\ UNCHANGED nonBufferVars

\* One turn of the loop, from the last product to the first
Last100Loop ==
    /\ handler = "last100"
    /\ loopIndex >= 1
    /\ IF Skipped(arrProducts[loopIndex])
       THEN UNCHANGED <<fetch100, dataBuffer, sent>>
       ELSE SetBufferState(StreamInput(BufferState, SnapshotItem(arrProducts[loopIndex], loopIndex - 1)))
    /\ loopIndex' = loopIndex - 1
    /\ UNCHANGED <<handler, arrProducts, nonBufferVars>>

\* After the loop: myStream.input({ type: "fetchRecentItemsEnd" })
Last100End ==
    /\ handler = "last100"
    /\ loopIndex = 0
    /\ SetBufferState(StreamInput(BufferState, Sentinel))
    /\ handler' = "last100 done"
    /\ arrProducts' = <<>>
    /\ UNCHANGED <<loopIndex, nonBufferVars>>

InitBufferVars ==
    /\ fetch100 = FALSE
    /\ dataBuffer = <<>>
    /\ sent = <<>>
    /\ handler = "none"
    /\ arrProducts = <<>>
    /\ loopIndex = 0

-----------------------------------------------------------------------------
(* Service worker: the auto-load timers *)

MaxPauses == 1

OUT_OF_RANGE_DELAY == 15
DOGPAGE_COOLDOWN == 1440
CAPTCHAPAGE_COOLDOWN == 60
LOGINPAGE_COOLDOWN == 60
JITTER_MIN == 5
JITTER_MAX == 10

\* setTimeout returns a handle that no pending timer and no variable holds
FreshId(ts, held) ==
    CHOOSE i \in 1..(Cardinality(ts) + Cardinality(held) + 1) :
        i \notin {t.id : t \in ts} \cup held

\* clearTimeout(handle): nothing happens for a handle that is not pending
Cleared(ts, handle) == {t \in ts : t.id # handle}

\* The timers and the two handles, as one value the steps below transform
TimerState == [timers |-> timers, reloadTimer |-> reloadTimer, displayTimer |-> displayTimer]

\* resetReloadTimer(interval): reloadTimer is overwritten by the new handle; the
\* timer it held is not cleared
ResetReloadTimer(st, interval) ==
    LET id == FreshId(st.timers, {st.reloadTimer, st.displayTimer})
    IN [st EXCEPT !.timers = @ \cup {[id |-> id, kind |-> "reset", left |-> interval]},
                  !.reloadTimer = id]

\* setReloadTimer, first lines: if (displayTimer) {clearTimeout; = null}, and
\* the same for reloadTimer
ClearedBoth(st) ==
    [timers |-> Cleared(Cleared(st.timers, st.displayTimer), st.reloadTimer),
     reloadTimer |-> 0,
     displayTimer |-> 0]

\* setReloadTimer, last lines: displayTimer = setTimeout(log, 500) and
\* reloadTimer = setTimeout(setReloadTimer, timer); neither handle is cleared here
Armed(st, delay) ==
    LET d == FreshId(st.timers, {st.reloadTimer, st.displayTimer})
        r == FreshId(st.timers, {st.reloadTimer, st.displayTimer, d})
    IN [timers |-> st.timers \cup {[id |-> d, kind |-> "display", left |-> 0],
                                    [id |-> r, kind |-> "jitter", left |-> delay]},
        reloadTimer |-> r,
        displayTimer |-> d]

\* if (!min || min > 5) min = 5;  if (!max || max > 10) max = 10
ClampedMin(min) == IF min = 0 \/ min > JITTER_MIN THEN JITTER_MIN ELSE min
ClampedMax(max) == IF max = 0 \/ max > JITTER_MAX THEN JITTER_MAX ELSE max

\* Math.floor(Math.random() * (max - min + 1) + min), in whole minutes: from min
\* to max, and from max to min when the clamped min is above the clamped max
JitterDelays(min, max) ==
    IF ClampedMin(min) <= ClampedMax(max)
    THEN ClampedMin(min)..ClampedMax(max)
    ELSE ClampedMax(max)..ClampedMin(min)

\* notification.autoload.min and .max as SettingsMgr's defaults give them
AUTOLOAD_MIN == 5
AUTOLOAD_MAX == 10

\* The delays the model draws for Math.random(): the shortest and the longest
Delays == {ClampedMin(AUTOLOAD_MIN), ClampedMax(AUTOLOAD_MAX)}

SetTimerState(st) ==
    /\ timers' = st.timers
    /\ reloadTimer' = st.reloadTimer
    /\ displayTimer' = st.displayTimer

\* setReloadTimer() up to its first await or its return. inRange is what
\* isTimeWithinRange() answers, canRequest the condition of the websocket request
\* (socket connected, country known, not a mobile device, chrome.windows)
SetReloadTimerFrom(st, inRange, canRequest, delay, by) ==
    IF ~inRange
    THEN /\ SetTimerState(ResetReloadTimer(ClearedBoth(st), OUT_OF_RANGE_DELAY))
         /\ awaiting' = awaiting
         /\ timerEvent' = [kind |-> "setReloadTimer", by |-> by, emitted |-> FALSE]
    ELSE IF canRequest
    THEN /\ SetTimerState(ClearedBoth(st))
         /\ awaiting' = awaiting + 1
         /\ timerEvent' = [kind |-> "setReloadTimer", by |-> by, emitted |-> FALSE]
    ELSE /\ SetTimerState(Armed(ClearedBoth(st), delay))
         /\ awaiting' = awaiting
         /\ timerEvent' = [kind |-> "setReloadTimer", by |-> by, emitted |-> FALSE]

\* The pending timers once `elapsed` minutes have passed and timer t has fired
After(ts, t) == {[u EXCEPT !.left = @ - t.left] : u \in ts \ {t}}

Due(t) == \A u \in timers : t.left <= u.left

Minus(n, m) == IF n > m THEN n - m ELSE 0

\* init(): with notification.active, setReloadTimer() is called
InitSetReloadTimer(inRange, canRequest, delay) ==
    /\ timerEvent.kind = "none"
    /\ SetReloadTimerFrom(TimerState, inRange, canRequest, delay, "init")
    /\ UNCHANGED <<cooldownLeft, pauses, nonTimerVars>>

\* The timer of resetReloadTimer fires: clearTimeout(reloadTimer), reloadTimer =
\* null, setReloadTimer()
ResetTimerFires(t, inRange, canRequest, delay) ==
    /\ t \in timers /\ t.kind = "reset" /\ Due(t)
    /\ SetReloadTimerFrom([timers |-> Cleared(After(timers, t), reloadTimer),
                           reloadTimer |-> 0,
                           displayTimer |-> displayTimer],
                          inRange, canRequest, delay, "reset")
    /\ cooldownLeft' = Minus(cooldownLeft, t.left)
    /\ UNCHANGED <<pauses, nonTimerVars>>

\* The timer of setReloadTimer fires: setReloadTimer()
JitterTimerFires(t, inRange, canRequest, delay) ==
    /\ t \in timers /\ t.kind = "jitter" /\ Due(t)
    /\ SetReloadTimerFrom([timers |-> After(timers, t),
                           reloadTimer |-> reloadTimer,
                           displayTimer |-> displayTimer],
                          inRange, canRequest, delay, "jitter")
    /\ cooldownLeft' = Minus(cooldownLeft, t.left)
    /\ UNCHANGED <<pauses, nonTimerVars>>

\* The display timer fires: it logs the delay
DisplayTimerFires(t) ==
    /\ t \in timers /\ t.kind = "display" /\ Due(t)
    /\ timers' = After(timers, t)
    /\ cooldownLeft' = Minus(cooldownLeft, t.left)
    /\ timerEvent' = [kind |-> "display", by |-> "display", emitted |-> FALSE]
    /\ UNCHANGED <<reloadTimer, displayTimer, awaiting, pauses, nonTimerVars>>

\* findMonitorTab answers and a suspended setReloadTimer goes on: reloadRequest is
\* emitted when a monitor tab was found, then the two timers are set
SetReloadTimerResumes(found, delay) ==
    /\ awaiting > 0
    /\ awaiting' = awaiting - 1
    /\ SetTimerState(Armed(TimerState, delay))
    /\ timerEvent' = [kind |-> "resumed", by |-> "await", emitted |-> found]
    /\ UNCHANGED <<cooldownLeft, pauses, nonTimerVars>>

\* findMonitorTab rejects (chrome.windows.get of a window that was closed since
\* the tabs were listed, or a failing chrome.tabs.query): the await throws and
\* the suspended setReloadTimer ends there, its promise rejected
SetReloadTimerFails ==
    /\ awaiting > 0
    /\ awaiting' = awaiting - 1
    /\ timerEvent' = [kind |-> "failed", by |-> "await", emitted |-> FALSE]
    /\ UNCHANGED <<timers, reloadTimer, displayTimer, cooldownLeft, pauses, nonTimerVars>>

\* processBroadcastMessage: dogpage, captchapage, loginpage
ForcedPause(type, interval) ==
    /\ pauses < MaxPauses
    /\ pauses' = pauses + 1
    /\ SetTimerState(ResetReloadTimer(TimerState, interval))
    /\ cooldownLeft' = interval
    /\ timerEvent' = [kind |-> "pause", by |-> type, emitted |-> FALSE]
    /\ UNCHANGED <<awaiting, nonTimerVars>>

InitTimerVars ==
    /\ timers = {}
    /\ reloadTimer = 0
    /\ displayTimer = 0
    /\ awaiting = 0
    /\ cooldownLeft = 0
    /\ pauses = 0
    /\ timerEvent = [kind |-> "none", by |-> "none", emitted |-> FALSE]

NextTimer ==
    \/ \E r, c \in BOOLEAN, d \in Delays :
          InitSetReloadTimer(r, c, d)
    \/ \E t \in timers, r, c \in BOOLEAN, d \in Delays :
          ResetTimerFires(t, r, c, d)
    \/ \E t \in timers, r, c \in BOOLEAN, d \in Delays :
          JitterTimerFires(t, r, c, d)
    \/ \E t \in timers : DisplayTimerFires(t)
    \/ \E f \in BOOLEAN, d \in Delays :
          SetReloadTimerResumes(f, d)
    \/ SetReloadTimerFails
    \/ ForcedPause("dogpage", DOGPAGE_COOLDOWN)
    \/ ForcedPause("captchapage", CAPTCHAPAGE_COOLDOWN)
    \/ ForcedPause("loginpage", LOGINPAGE_COOLDOWN)

-----------------------------------------------------------------------------
(* Service worker: the websocket connection *)

MaxSockets == 3

Countries == {"", "ca"}

\* socket?.connected
SocketConnected(socks, sock) == \E s \in socks : s.id = sock /\ s.state = "connected"

\* The sockets with a transport attempt in flight or established
LiveSockets(socks) == {s \in socks : s.state \in {"connecting", "connected"}}

\* connectWebSocket: the four tests that return before io.connect
ConnectAllowed_IgnoresConnecting(act, socks, sock, ctry, connecting) ==
    /\ act
    /\ ~SocketConnected(socks, sock)
    /\ ctry # ""

\* connectWebSocket without the test of the country code
ConnectAllowed_IgnoresCountry(act, socks, sock, ctry, connecting) ==
    /\ act
    /\ ~SocketConnected(socks, sock)
    /\ ~connecting

\* connectWebSocket without the test of socket?.connected
ConnectAllowed_IgnoresConnected(act, socks, sock, ctry, connecting) ==
    /\ act
    /\ ctry # ""
    /\ ~connecting

ConnectAllowed(act, socks, sock, ctry, connecting) ==
    /\ act
    /\ ~SocketConnected(socks, sock)
    /\ ctry # ""
    /\ ~connecting

\* A socket no event can come from and no variable holds is garbage
Kept(socks, sock) == {s \in socks : s.state # "closed" \/ s.id = sock}

NewSocketId(socks) == CHOOSE i \in 1..(Cardinality(socks) + 1) : i \notin {s.id : s \in socks}

WithState(socks, s, state) == (socks \ {s}) \cup {[s EXCEPT !.state = state]}

\* connectWebSocket(), called by `by`
ConnectWebSocket(by) ==
    IF ConnectAllowed(active, sockets, socket, country, socket_connecting)
    THEN LET id == NewSocketId(sockets)
         IN /\ Cardinality(sockets) < MaxSockets
            /\ socket_connecting' = TRUE
            /\ socket' = id
            /\ sockets' = Kept(sockets, id) \cup {[id |-> id, state |-> "connecting"]}
            /\ connEvent' = [op |-> "connectWebSocket", by |-> by, id |-> id,
                             created |-> TRUE, posted |-> "none"]
    ELSE /\ connEvent' = [op |-> "connectWebSocket", by |-> by, id |-> socket,
                          created |-> FALSE, posted |-> "none"]
         /\ UNCHANGED <<sockets, socket, socket_connecting>>

\* init(): with notification.active, connectWebSocket() unless socket?.connected
InitConnect ==
    /\ active
    /\ IF ~SocketConnected(sockets, socket)
       THEN ConnectWebSocket("init")
       ELSE /\ connEvent' = [op |-> "init", by |-> "init", id |-> socket,
                             created |-> FALSE, posted |-> "none"]
            /\ UNCHANGED <<sockets, socket, socket_connecting>>
    /\ UNCHANGED <<active, country, nonConnVars>>

\* The websocketReconnect alarm, notification.active set: connectWebSocket()
AlarmConnects ==
    /\ active
    /\ ConnectWebSocket("alarm")
    /\ UNCHANGED <<active, country, nonConnVars>>

\* The websocketReconnect alarm, notification.active unset: socket?.disconnect().
\* A connected socket closes and its disconnect handler runs; a socket that is
\* still connecting is destroyed and none of its handlers runs
AlarmDisconnects ==
    /\ ~active
    /\ \/ /\ \E s \in sockets : s.id = socket /\ s.state = "connected"
          /\ sockets' = {IF s.id = socket THEN [s EXCEPT !.state = "closed"] ELSE s : s \in sockets}
          /\ socket_connecting' = FALSE
          /\ connEvent' = [op |-> "disconnect", by |-> "alarm", id |-> socket,
                           created |-> FALSE, posted |-> "wsClosed"]
       \/ /\ \E s \in sockets : s.id = socket /\ s.state = "connecting"
          /\ sockets' = {IF s.id = socket THEN [s EXCEPT !.state = "closed"] ELSE s : s \in sockets}
          /\ connEvent' = [op |-> "destroyed", by |-> "alarm", id |-> socket,
                           created |-> FALSE, posted |-> "none"]
          /\ UNCHANGED socket_connecting
       \/ /\ \A s \in sockets : s.id = socket => s.state = "closed"
          /\ connEvent' = [op |-> "alarm", by |-> "alarm", id |-> socket,
                           created |-> FALSE, posted |-> "none"]
          /\ UNCHANGED <<sockets, socket_connecting>>
    /\ UNCHANGED <<socket, active, country, nonConnVars>>

\* socket.on("connect")
OnConnect(s) ==
    /\ s \in sockets /\ s.state = "connecting"
    /\ sockets' = WithState(sockets, s, "connected")
    /\ socket_connecting' = FALSE
    /\ connEvent' = [op |-> "connect", by |-> "socket", id |-> s.id,
                     created |-> FALSE, posted |-> "wsOpen"]
    /\ UNCHANGED <<socket, active, country, nonConnVars>>

\* socket.on("disconnect"): the transport of a connected socket closed
OnDisconnect(s) ==
    /\ s \in sockets /\ s.state = "connected"
    /\ sockets' = Kept(WithState(sockets, s, "closed"), socket)
    /\ socket_connecting' = FALSE
    /\ connEvent' = [op |-> "disconnect", by |-> "socket", id |-> s.id,
                     created |-> FALSE, posted |-> "wsClosed"]
    /\ UNCHANGED <<socket, active, country, nonConnVars>>

\* socket.on("connect_error"): the attempt of a connecting socket failed
OnConnectError(s) ==
    /\ s \in sockets /\ s.state = "connecting"
    /\ sockets' = Kept(WithState(sockets, s, "closed"), socket)
    /\ socket_connecting' = FALSE
    /\ connEvent' = [op |-> "connect_error", by |-> "socket", id |-> s.id,
                     created |-> FALSE, posted |-> "none"]
    /\ UNCHANGED <<socket, active, country, nonConnVars>>

\* The user switches notification.active
SetActive(b) ==
    /\ active # b
    /\ active' = b
    /\ connEvent' = [op |-> "setActive", by |-> "user", id |-> socket,
                     created |-> FALSE, posted |-> "none"]
    /\ UNCHANGED <<sockets, socket, socket_connecting, country, nonConnVars>>

\* A vine page is loaded and the country code becomes known
SetCountry(c) ==
    /\ country # c
    /\ country' = c
    /\ connEvent' = [op |-> "setCountry", by |-> "user", id |-> socket,
                     created |-> FALSE, posted |-> "none"]
    /\ UNCHANGED <<sockets, socket, socket_connecting, active, nonConnVars>>

InitConnVars ==
    /\ sockets = {}
    /\ socket = 0
    /\ socket_connecting = FALSE
    /\ active = FALSE
    /\ country = ""
    /\ connEvent = [op |-> "none", by |-> "none", id |-> 0, created |-> FALSE, posted |-> "none"]

NextConn ==
    \/ InitConnect
    \/ AlarmConnects
    \/ AlarmDisconnects
    \/ \E s \in sockets : OnConnect(s)
    \/ \E s \in sockets : OnDisconnect(s)
    \/ \E s \in sockets : OnConnectError(s)
    \/ \E b \in BOOLEAN : SetActive(b)
    \/ \E c \in Countries : SetCountry(c)

-----------------------------------------------------------------------------
(* Service worker: the daily window of the auto-load *)

\* The minutes the configured times and the clock are drawn from
MinuteStep == 30

DAY == 1440
MIN_WINDOW == 8
DEFAULT_START_HOUR == 3
DEFAULT_END_HOUR == 17

ConfiguredTimes == {[h |-> h, m |-> m] : h \in 0..24, m \in {k \in 0..59 : k % MinuteStep = 0}}
ClockTimes == {h * 60 : h \in 0..23}

\* if (hour < 0 || hour > 24) hour = default;  if (minute < 0 || minute > 59) minute = 0
ValidHour(h, default) == IF h < 0 \/ h > 24 THEN default ELSE h
ValidMinute(m) == IF m < 0 \/ m > 59 THEN 0 ELSE m

\* A Date of today after setHours(h), setMinutes(m), setSeconds(0), in minutes
\* from today's midnight (an hour of 24 is tomorrow's midnight)
DateAt(h, m) == h * 60 + m

\* date.setHours(h) on a Date: the day and the minutes stay
SetHours(date, h) == (date \div DAY) * DAY + h * 60 + (date % 60)

Abs(n) == IF n < 0 THEN 0 - n ELSE n

\* isTimeWithinRange: start and end once the 8 hours test has been made.
\* hours < 8 is |end - start| / 60 < 8
Normalized(hs, he) ==
    LET start == DateAt(ValidHour(hs.h, DEFAULT_START_HOUR), ValidMinute(hs.m))
        end == DateAt(ValidHour(he.h, DEFAULT_END_HOUR), ValidMinute(he.m))
    IN IF Abs(end - start) < MIN_WINDOW * 60
       THEN [start |-> SetHours(start, DEFAULT_START_HOUR), end |-> SetHours(end, DEFAULT_END_HOUR)]
       ELSE [start |-> start, end |-> end]

\* isTimeWithinRange: start and end once the case start > end has been handled
AppliedWindow(t, hs, he) ==
    LET w == Normalized(hs, he)
    IN IF w.start > w.end
       THEN IF t < w.end THEN [w EXCEPT !.start = @ - DAY]
            ELSE IF t >= w.start THEN [w EXCEPT !.end = @ + DAY]
            ELSE w
       ELSE w

\* isTimeWithinRange() at the time of day t
IsTimeWithinRange(t, hs, he) ==
    LET w == AppliedWindow(t, hs, he)
    IN ~(t < w.start \/ t > w.end)

\* isTimeWithinRange() is called
CallIsTimeWithinRange ==
    /\ withinRange' = [called |-> TRUE, val |-> IsTimeWithinRange(timeOfDay, hourStart, hourEnd)]
    /\ UNCHANGED <<hourStart, hourEnd, timeOfDay, nonWindowVars>>

\* The user sets notification.autoload.hourStart
SetHourStart(t) ==
    /\ hourStart # t
    /\ hourStart' = t
    /\ withinRange' = [called |-> FALSE, val |-> FALSE]
    /\ UNCHANGED <<hourEnd, timeOfDay, nonWindowVars>>

\* The user sets notification.autoload.hourEnd
SetHourEnd(t) ==
    /\ hourEnd # t
    /\ hourEnd' = t
    /\ withinRange' = [called |-> FALSE, val |-> FALSE]
    /\ UNCHANGED <<hourStart, timeOfDay, nonWindowVars>>

\* Time passes
ClockMoves(t) ==
    /\ timeOfDay # t
    /\ timeOfDay' = t
    /\ withinRange' = [called |-> FALSE, val |-> FALSE]
    /\ UNCHANGED <<hourStart, hourEnd, nonWindowVars>>

InitWindowVars ==
    /\ hourStart = [h |-> 3, m |-> 0]
    /\ hourEnd = [h |-> 17, m |-> 0]
    /\ timeOfDay = 0
    /\ withinRange = [called |-> FALSE, val |-> FALSE]

NextWindow ==
    \/ CallIsTimeWithinRange
    \/ \E t \in ConfiguredTimes : SetHourStart(t)
    \/ \E t \in ConfiguredTimes : SetHourEnd(t)
    \/ \E t \in ClockTimes : ClockMoves(t)

-----------------------------------------------------------------------------
(* The catalog after construction, and the calls made on it *)

InitItemVars ==
    /\ items = <<>>
    /\ imageUrls = {}
    /\ sortType = TYPE_DATE_DESC
    /\ hideDuplicateThumbnail = FALSE
    /\ clock = 0
    /\ ret = [op |-> "none", asin |-> "", val |-> Undef]
    /\ markedAbsent = {}
    /\ marked = {}
    /\ supplied = [a \in ASINS |-> NoneSupplied]

-----------------------------------------------------------------------------
(* SettingsMgr.set *)

MaxSetCalls == 2

\* The setting paths the calls name, and the values they give
SettingPaths == {"notification.autoload.min", "notification.autoload.max"}
SettingValues == {5, 7, 10}

\* #defaultSettings at the two paths
DefaultSettings ==
    [p \in SettingPaths |-> IF p = "notification.autoload.min" THEN AUTOLOAD_MIN ELSE AUTOLOAD_MAX]

\* Object.assign(this.#settings, data.settings): every top-level key of the
\* stored settings replaces the one in memory, the objects below it included
Assigned(mem, data) == data

\* set(settingPath, value) up to await chrome.storage.local.get("settings"): it
\* returns false when get(settingPath, false) == value. The storage answers the
\* requests in the order they were made, so the data of the answer is what is
\* stored when the request is made
SetBegins(path, value) ==
    /\ Len(setCalls) < MaxSetCalls
    /\ IF settings[path] = value
       THEN UNCHANGED <<setCalls, lastSet>>
       ELSE /\ setCalls' = Append(setCalls, [path |-> path, value |-> value, data |-> storage])
            /\ lastSet' = [lastSet EXCEPT ![path] = value]
    /\ UNCHANGED <<settings, storage, itemVars, bufferVars, timerVars, connVars, windowVars, autoloadVars>>

\* The answer of the storage arrives and the oldest suspended set goes on:
\* Object.assign, current[lastKey] = value, chrome.storage.local.set
SetResumes ==
    /\ setCalls # <<>>
    /\ LET c == Head(setCalls)
           written == [Assigned(settings, c.data) EXCEPT ![c.path] = c.value]
       IN /\ settings' = written
          /\ storage' = written
    /\ setCalls' = Tail(setCalls)
    /\ UNCHANGED <<lastSet, itemVars, bufferVars, timerVars, connVars, windowVars, autoloadVars>>

\* After the first load: memory and storage hold the default settings
InitMgrVars ==
    /\ settings = DefaultSettings
    /\ storage = DefaultSettings
    /\ setCalls = <<>>
    /\ lastSet = DefaultSettings

\* The two settings as SettingsMgr's defaults give them
InitAutoloadVars ==
    /\ autoloadMin = AUTOLOAD_MIN
    /\ autoloadMax = AUTOLOAD_MAX

Init ==
    /\ InitItemVars /\ InitBufferVars /\ InitTimerVars /\ InitConnVars /\ InitWindowVars
    /\ InitAutoloadVars
    /\ InitMgrVars

\* What an addItemData call can supply for an ETV bound
EtvInputs == {Null, Str("")} \cup {Num(n) : n \in EtvNums}

\* The server sends a minimum that is not above the maximum
Consistent(lo, hi) == (IsNum(lo) /\ IsNum(hi)) => lo.num <= hi.num

\* Item data that carries the ETV bounds, both or one of them
EtvItemData ==
    {[date |-> Num(1), etv_min |-> p[1], etv_max |-> p[2]] :
        p \in {q \in EtvInputs \X EtvInputs : Consistent(q[1], q[2])}}
    \cup {[date |-> Num(1), etv_min |-> lo] : lo \in EtvInputs}
    \cup {[date |-> Num(1), etv_max |-> hi] : hi \in EtvInputs}

\* Item data that carries a title, or none
Titles == {Null, Str("t1"), Str("t2")}

TitleItemData ==
    {[date |-> Num(d), title |-> t] : d \in Dates, t \in Titles}
    \cup {[date |-> Num(d)] : d \in Dates}
    \cup {[date |-> Num(d), img_url |-> Str("u1")] : d \in Dates}

\* Item data of a live item (no unavailable key) and of a snapshot item (with one)
AvailItemData ==
    {[date |-> Num(1)]}
    \cup {[date |-> Num(1), unavailable |-> Bool(b)] : b \in BOOLEAN}

\* The ETV calls: bounds supplied by addItemData and observed by updateItemETV
NextEtv ==
    \/ \E a \in ASINS, d \in EtvItemData : AddItemData(a, d)
    \/ \E a \in ASINS, v \in EtvNums : UpdateItemETV(a, Num(v))
    \/ \E a \in ASINS : RemoveAsin(a)
    \/ \E st \in SortTypes : SetSortType(st)
    \/ SortItems

SpecEtv == Init /\ [][NextEtv]_vars

\* The merge calls: addItemData on new and on existing ids
NextMerge ==
    \/ \E a \in ASINS, d \in TitleItemData : AddItemData(a, d)
    \/ \E a \in ASINS : RemoveAsin(a)
    \/ \E st \in SortTypes : SetSortType(st)
    \/ \E b \in BOOLEAN : SetHideDuplicateThumbnail(b)

SpecMerge == Init /\ [][NextMerge]_vars

\* The availability calls, with the other calls that touch a record
NextAvail ==
    \/ \E a \in ASINS, d \in AvailItemData : AddItemData(a, d)
    \/ \E a \in ASINS : MarkItemUnavailable(a)
    \/ \E a \in ASINS : StoreItemDOMElement(a, "el1")
    \/ \E a \in ASINS : UpdateItemETV(a, Num(1))
    \/ \E a \in ASINS : UpdateItemTier(a, Str("gold"))
    \/ \E a \in ASINS : RemoveAsin(a)
    \/ \E st \in {TYPE_DATE_DESC, TYPE_PRICE_DESC} : SetSortType(st)
    \/ SortItems

SpecAvail == Init /\ [][NextAvail]_vars

\* An id that no addItemData call ever carries
UNSEEN == "C"

\* Item data of a later message about the same item
StampItemData == {[date |-> Num(1)], [date |-> Num(2), title |-> Str("t1")]}

\* The calls on the record of one id while time passes; another id comes and goes
NextStamp ==
    \/ \E a \in ASINS, d \in StampItemData : AddItemData(a, d)
    \/ UpdateItemETV("A", Num(1))
    \/ UpdateItemTier("A", Str("gold"))
    \/ MarkItemUnavailable("A")
    \/ StoreItemDOMElement("A", "el1")
    \/ UpdateItemETV(UNSEEN, Num(1))
    \/ UpdateItemTier(UNSEEN, Str("gold"))
    \/ StoreItemDOMElement(UNSEEN, "el1")
    \/ \E a \in ASINS : RemoveAsin(a)
    \/ \E st \in SortTypes : SetSortType(st)
    \/ SortItems
    \/ Tick

SpecStamp == Init /\ [][NextStamp]_vars

-----------------------------------------------------------------------------
(* The events of the socket *)

ProductAsins == {"P1", "P2", "P3"}

\* The products of a last100 response: dated, some without a title or an image
Products ==
    {[asin |-> a, date |-> d, title |-> t, img_url |-> "u"] :
        a \in ProductAsins, d \in Dates, t \in {"t", ""}}
    \cup {[asin |-> "P1", date |-> 1, title |-> "t", img_url |-> ""]}

\* The responses: up to MaxProducts products, in any order
ProductLists == UNION {[1..n -> Products] : n \in 0..MaxProducts}

NextBuffer ==
    \/ \E a \in ASINS : OnNewItem(a)
    \/ \E a \in ASINS : OnNewETV(a, 1)
    \/ \E a \in ASINS : OnNewVariants(a)
    \/ \E a \in ASINS : OnUnavailableItem(a)
    \/ \E ps \in ProductLists : OnLast100(ps)
    \/ Last100Loop
    \/ Last100End

SpecBuffer == Init /\ [][NextBuffer]_vars

\* The events dataBuffering is called with
BufferEvents ==
    {LiveItem(a) : a \in ASINS} \cup
    {[type |-> "newItem", index |-> 0, asin |-> a, reason |-> "Fetch latest new items"] : a \in ASINS} \cup
    {Sentinel}

\* dataBuffering(data), called by the stream
CallDataBuffering(data) ==
    /\ data.type # "fetchRecentItemsEnd" => Len(dataBuffer) < MaxProducts
    /\ SetBufferState(DataBuffering(Starting, data))
    /\ handler' = "dataBuffering"
    /\ UNCHANGED <<arrProducts, loopIndex, nonBufferVars>>

\* processLast100Items: fetch100 = true
StartBuffering ==
    /\ ~fetch100
    /\ SetBufferState([Starting EXCEPT !.fetch100 = TRUE])
    /\ handler' = "last100"
    /\ UNCHANGED <<arrProducts, loopIndex, nonBufferVars>>

\* dataBuffering on its own: any event in either state
NextDataBuffering ==
    \/ \E data \in BufferEvents : CallDataBuffering(data)
    \/ StartBuffering

SpecDataBuffering == Init /\ [][NextDataBuffering]_vars

SpecTimer == Init /\ [][NextTimer]_vars

SpecConn == Init /\ [][NextConn]_vars

SpecWindow == Init /\ [][NextWindow]_vars

\* The set calls of one SettingsMgr and the answers of the storage
NextSet ==
    \/ \E path \in SettingPaths, value \in SettingValues : SetBegins(path, value)
    \/ SetResumes

SpecSet == Init /\ [][NextSet]_vars

\* The values the user gives notification.autoload.min and .max (0: none)
AutoloadValues == {0, 1, 5, 7, 10, 11}

\* The user changes notification.autoload.min
SetAutoloadMin(n) ==
    /\ autoloadMin # n
    /\ autoloadMin' = n
    /\ UNCHANGED <<autoloadMax, itemVars, bufferVars, timerVars, connVars, windowVars, mgrVars>>

\* The user changes notification.autoload.max
SetAutoloadMax(n) ==
    /\ autoloadMax # n
    /\ autoloadMax' = n
    /\ UNCHANGED <<autoloadMin, itemVars, bufferVars, timerVars, connVars, windowVars, mgrVars>>

\* The auto-load timers with the socket not connected, under the settings the
\* user gives: the delay is one that Math.random() can give for them
NextJitter ==
    \/ \E r \in BOOLEAN, d \in JitterDelays(autoloadMin, autoloadMax) :
          InitSetReloadTimer(r, FALSE, d)
    \/ \E t \in timers, r \in BOOLEAN, d \in JitterDelays(autoloadMin, autoloadMax) :
          ResetTimerFires(t, r, FALSE, d)
    \/ \E t \in timers, r \in BOOLEAN, d \in JitterDelays(autoloadMin, autoloadMax) :
          JitterTimerFires(t, r, FALSE, d)
    \/ \E t \in timers : DisplayTimerFires(t)
    \/ \E n \in AutoloadValues : SetAutoloadMin(n)
    \/ \E n \in AutoloadValues : SetAutoloadMax(n)

SpecJitter == Init /\ [][NextJitter]_vars

\* The condition of the websocket request in setReloadTimer: socket?.connected
\* && i13n.getCountryCode(); the mobile settings are unset and chrome.windows
\* exists
CanRequest(socks, sock, ctry) == SocketConnected(socks, sock) /\ ctry # ""

\* init(): with notification.active, connectWebSocket() unless socket?.connected,
\* then setReloadTimer()
InitRuns(inRange, delay) ==
    /\ active
    /\ timerEvent.kind = "none"
    /\ IF ~SocketConnected(sockets, socket)
       THEN ConnectWebSocket("init")
       ELSE /\ connEvent' = [op |-> "init", by |-> "init", id |-> socket,
                             created |-> FALSE, posted |-> "none"]
            /\ UNCHANGED <<sockets, socket, socket_connecting>>
    /\ SetReloadTimerFrom(TimerState, inRange, CanRequest(sockets, socket, country), delay, "init")
    /\ UNCHANGED <<cooldownLeft, pauses, active, country, itemVars, bufferVars, windowVars, autoloadVars, mgrVars>>

\* The auto-load timers next to the connection: the websocket request of
\* setReloadTimer depends on the socket as it is when the timer fires
NextRequest ==
    \/ \E r \in BOOLEAN, d \in Delays : InitRuns(r, d)
    \/ \E t \in timers, r \in BOOLEAN, d \in Delays :
          ResetTimerFires(t, r, CanRequest(sockets, socket, country), d)
    \/ \E t \in timers, r \in BOOLEAN, d \in Delays :
          JitterTimerFires(t, r, CanRequest(sockets, socket, country), d)
    \/ \E t \in timers : DisplayTimerFires(t)
    \/ \E f \in BOOLEAN, d \in Delays : SetReloadTimerResumes(f, d)
    \/ SetReloadTimerFails
    \/ AlarmConnects
    \/ \E s \in sockets : OnConnect(s)
    \/ \E s \in sockets : OnDisconnect(s)
    \/ \E b \in BOOLEAN : SetActive(b)
    \/ \E c \in Countries : SetCountry(c)

SpecRequest == Init /\ [][NextRequest]_vars


-----------------------------------------------------------------------------
(* Claims about the ETV bounds and the price sorts (SpecEtv) *)

IsNullish(v) == v \in {Null, Undef}

\* min and max of a bound and an observation, a null bound being ignored
MinIgnoringNull(cur, v) ==
    IF IsNullish(cur) THEN v ELSE IF v.num < cur.num THEN v ELSE cur

MaxIgnoringNull(cur, v) ==
    IF IsNullish(cur) THEN v ELSE IF v.num > cur.num THEN v ELSE cur

\* C1: every updateItemETV(id, v) on a record of the catalog leaves etv_min the
\* minimum and etv_max the maximum of the bound it found and v, nulls ignored,
\* also when the bound it found or v is 0 (so a sequence of observations leaves
\* the minimum and the maximum of the first bound and all of them).
C1_EtvEnvelope ==
    [][\A a \in ASINS, v \in EtvNums :
         (Has(items, a) /\ UpdateItemETV(a, Num(v))) =>
            /\ Field(items', a, "etv_min") = MinIgnoringNull(Field(items, a, "etv_min"), Num(v))
            /\ Field(items', a, "etv_max") = MaxIgnoringNull(Field(items, a, "etv_max"), Num(v))]_vars

\* The calls that end with sortItems
JustSorted ==
    \/ ret.op \in {"sortItems", "addItemData"}
    \/ ret.op \in {"updateItemETV", "updateItemTier"} /\ ret.val = Bool(TRUE)

\* C2: with sortType = price_desc, after sortItems every record whose etv_min
\* is null comes after every record whose etv_min is 0.
C2_NullBelowZeroPriceDesc ==
    (sortType = TYPE_PRICE_DESC /\ JustSorted) =>
        \A i, j \in 1..Len(items) :
            (items[i].data["etv_min"] = Null /\ items[j].data["etv_min"] = Num(0)) => j < i

\* C3: with sortType = price_asc, after sortItems every record whose etv_min
\* is null comes after every record whose etv_min is a number, 0 included.
C3_NullLastPriceAsc ==
    (sortType = TYPE_PRICE_ASC /\ JustSorted) =>
        \A i, j \in 1..Len(items) :
            (items[i].data["etv_min"] = Null /\ IsNum(items[j].data["etv_min"])) => j < i

-----------------------------------------------------------------------------
(* Claims about the merge of addItemData (SpecMerge) *)

-----------------------------------------------------------------------------
(* Claims about unavailable records (SpecAvail) *)

\* C5: when markItemUnavailable(id) ran while id was absent and the record was
\* then created and bound, storeItemDOMElement reports it as already
\* unavailable.
C5_EarlyUnavailableReported ==
    (ret.op = "storeItemDOMElement" /\ ret.val # Thrown /\ ret.asin \in markedAbsent) =>
        ret.val = Bool(TRUE)

\* C6: storeItemDOMElement on a record of the catalog returns true when
\* markItemUnavailable ran on the record since its creation, and false when it
\* never did (and no item data said the record was unavailable).
C6_StoreReportsMarked ==
    (ret.op = "storeItemDOMElement" /\ ret.val # Thrown) =>
        /\ ret.asin \in marked => ret.val = Bool(TRUE)
        /\ (ret.asin \notin marked /\ ~supplied[ret.asin].unavailable) => ret.val = Bool(FALSE)

\* C7: a record that markItemUnavailable marked stays unavailable until it is
\* evicted, whatever addItemData, updateItemETV, updateItemTier, sortItems and
\* storeItemDOMElement calls follow.
C7_UnavailableSticks ==
    \A a \in marked : Has(items, a) => Field(items, a, "unavailable") = Bool(TRUE)

-----------------------------------------------------------------------------
(* Claims about the buffer of the service worker (SpecBuffer) *)

\* The messages processLast100Items has fed once its loop index is idx: those of
\* the products from the last one down to the one after idx, the skipped ones
\* left out
RECURSIVE Fed(_, _)
Fed(arr, idx) ==
    IF idx >= Len(arr) THEN <<>>
    ELSE Fed(arr, idx + 1) \o
         (IF Skipped(arr[idx + 1]) THEN <<>> ELSE <<SnapshotItem(arr[idx + 1], idx)>>)

\* C8, as stated: the events received while buffering, then the sentinel, reach
\* the consumer as one batch message that holds the events in their order and
\* not the sentinel.
C8_BatchWithoutSentinel ==
    [][(handler = "last100" /\ handler' = "last100 done") =>
            sent' = <<[type |-> "fetch100", data |-> Fed(arrProducts, 0)]>>]_vars

\* C8, amended: the events received while buffering are buffered in their order
\* and none is posted; the sentinel then makes one batch message, the only
\* message posted, which holds the events in their order followed by the
\* sentinel itself, and the buffer is left empty and not buffering.
C8_BatchEndsWithSentinel ==
    [][/\ handler' = "last100" =>
            /\ fetch100'
            /\ sent' = <<>>
            /\ dataBuffer' = Fed(arrProducts', loopIndex')
       /\ (handler = "last100" /\ handler' = "last100 done") =>
            /\ sent' = <<[type |-> "fetch100", data |-> Append(Fed(arrProducts, 0), Sentinel)]>>
            /\ dataBuffer' = <<>>
            /\ ~fetch100']_vars

\* A batch of three events of three different ids, then the sentinel
C8_Witness ==
    /\ handler = "last100 done"
    /\ Len(sent) = 1
    /\ sent[1].type = "fetch100"
    /\ Len(sent[1].data) = 4
    /\ sent[1].data[4] = Sentinel
    /\ \A k \in 1..3 : sent[1].data[k].type = "newItem"
    /\ Cardinality({sent[1].data[k].asin : k \in 1..3}) = 3

\* C9: while fetch100 is true no event is posted to the consumer surfaces: the
\* one message posted from a buffering state is the batch, which ends the
\* buffering. The handlers that post without dataBuffering (newETV, newVariants,
\* unavailableItem) never run in a buffering state, for fetch100 is true only
\* inside the run of processLast100Items.
C9_NothingForwardedWhileBuffering ==
    [][/\ (fetch100 /\ fetch100') => sent' = sent
       /\ (fetch100 /\ ~fetch100') =>
            /\ Len(sent') = Len(sent) + 1
            /\ SubSeq(sent', 1, Len(sent)) = sent
            /\ sent'[Len(sent')].type = "fetch100"
       /\ fetch100' => handler' = "last100"]_vars

\* Two events were received while buffering and none was posted
C9_Witness ==
    /\ fetch100
    /\ Len(dataBuffer) = 2
    /\ sent = <<>>

\* The timers that end in setReloadTimer: the cooldown timers and the jitter timers
ReloadTimers == {t \in timers : t.kind \in {"reset", "jitter"}}

\* C10: after a forced-pause signal the cooldown timer is the only reload timer
\* pending, and until the cooldown has elapsed setReloadTimer does not run and no
\* reloadRequest is emitted.
C10_PauseCancelsJitter ==
    /\ timerEvent.kind = "pause" =>
          \A t \in ReloadTimers : t.id = reloadTimer /\ t.left = cooldownLeft
    /\ cooldownLeft > 0 =>
          /\ timerEvent.kind # "setReloadTimer"
          /\ ~timerEvent.emitted

\* C11: a forced pause that arrives while setReloadTimer is suspended at its
\* await of findMonitorTab wins: once setReloadTimer has resumed, the cooldown
\* timer, with its delay unchanged, is the one reload timer pending and is the
\* timer reloadTimer holds.
C11_PauseWinsOverResume ==
    [][(timerEvent.kind = "pause" /\ awaiting > 0 /\ timerEvent'.kind = "resumed") =>
           /\ Cardinality(ReloadTimers') = 1
           /\ \A t \in ReloadTimers' :
                 t.kind = "reset" /\ t.left = cooldownLeft' /\ t.id = reloadTimer']_vars

-----------------------------------------------------------------------------
(* Claims about the websocket connection (SpecConn) *)

\* C12: no step leaves two sockets connecting or connected, and a call of
\* connectWebSocket made while a socket is connecting or connected makes no
\* io.connect attempt.
C12_OneSocketAtATime ==
    [][/\ Cardinality(LiveSockets(sockets')) <= 1
       /\ (LiveSockets(sockets) # {} /\ connEvent'.op = "connectWebSocket") =>
             /\ ~connEvent'.created
             /\ sockets' = sockets
             /\ socket' = socket]_vars

\* Two connectWebSocket calls in a row have happened: the second one found the
\* socket of the first still connecting
C12_Witness ==
    /\ connEvent.op = "connectWebSocket"
    /\ ~connEvent.created
    /\ socket_connecting
    /\ \E s \in sockets : s.id = socket /\ s.state = "connecting"

\* C13: after a disconnect and after a connect_error of a socket, no socket is
\* connected or connecting, socket_connecting is false, and wsClosed was
\* broadcast.
C13_CloseAndErrorBroadcast ==
    connEvent.op \in {"disconnect", "connect_error"} =>
        /\ LiveSockets(sockets) = {}
        /\ ~socket_connecting
        /\ connEvent.posted = "wsClosed"

-----------------------------------------------------------------------------
(* Claims about the daily window (SpecWindow) *)

\* The configured time of day, in minutes
Configured(t) == t.h * 60 + t.m

\* C14: for a configured window whose start is later than its end,
\* isTimeWithinRange answers true at a time of day at or after the start or
\* before the end, and false at a time of day after the end and before the start.
C14_MidnightWrap ==
    (withinRange.called /\ Configured(hourStart) > Configured(hourEnd)) =>
        /\ (timeOfDay >= Configured(hourStart) \/ timeOfDay < Configured(hourEnd)) =>
              withinRange.val
        /\ (timeOfDay > Configured(hourEnd) /\ timeOfDay < Configured(hourStart)) =>
              ~withinRange.val

\* The hours of the clock at which isTimeWithinRange answers true
AcceptedHours(hs, he) == {t \in ClockTimes : IsTimeWithinRange(t, hs, he)}

\* C15: whatever hourStart and hourEnd are configured, the window
\* isTimeWithinRange applies spans at least 8 hours: it answers true at 8 hours
\* of the clock or more.
C15_WindowAtLeast8Hours ==
    withinRange.called => Cardinality(AcceptedHours(hourStart, hourEnd)) >= MIN_WINDOW

-----------------------------------------------------------------------------
(* Claims about the stored ETV bounds (SpecEtv) *)

\* C16: in every record whose etv_min and etv_max are both numbers, etv_min is
\* not above etv_max, whatever addItemData and updateItemETV calls were made
\* (the calls that supply both bounds supply them in order).
C16_MinNotAboveMax ==
    \A i \in 1..Len(items) :
        (IsNum(items[i].data["etv_min"]) /\ IsNum(items[i].data["etv_max"])) =>
            items[i].data["etv_min"].num <= items[i].data["etv_max"].num

EtvBounds == {"etv_min", "etv_max"}

\* C17: no record holds "" as an ETV bound; after addItemData, a bound the call
\* supplied as "" is null; and updateItemETV that follows an addItemData which
\* supplied both bounds as "" leaves both bounds equal to one number.
C17_EmptyEtvIsNull ==
    [][/\ \A i \in 1..Len(items') : \A f \in EtvBounds : items'[i].data[f] # Str("")
       /\ ret'.op = "addItemData" =>
             \A f \in ret'.emptyEtv : Field(items', ret'.asin, f) = Null
       /\ (/\ ret.op = "addItemData" /\ ret.emptyEtv = EtvBounds
           /\ ret'.op = "updateItemETV" /\ ret'.asin = ret.asin) =>
             /\ ret'.val = Bool(TRUE)
             /\ IsNum(Field(items', ret'.asin, "etv_min"))
             /\ Field(items', ret'.asin, "etv_max") = Field(items', ret'.asin, "etv_min")]_vars

\* addItemData(A, {etv_min: "", etv_max: ""}) has just run: both bounds are null
C17_Witness ==
    /\ ret.op = "addItemData" /\ ret.asin = "A"
    /\ ret.emptyEtv = EtvBounds
    /\ Field(items, "A", "etv_min") = Null
    /\ Field(items, "A", "etv_max") = Null

-----------------------------------------------------------------------------
(* Claims about what the calls leave alone (SpecStamp) *)

KeepingCalls == {"addItemData", "updateItemETV", "updateItemTier", "markItemUnavailable", "sortItems"}

\* C19: once storeItemDOMElement has attached an element and created its tile,
\* addItemData, updateItemETV, updateItemTier, markItemUnavailable and sortItems
\* leave what getItemDOMElement and getItemTile return unchanged.
C19_BindingStays ==
    [][\A a \in ASINS :
          (/\ GetItemDOMElement(items, a) \notin {Null, Undef}
           /\ GetItemTile(items, a) # Undef
           /\ ret'.op \in KeepingCalls) =>
              /\ GetItemDOMElement(items', a) = GetItemDOMElement(items, a)
              /\ GetItemTile(items', a) = GetItemTile(items, a)]_vars

\* C20: addItemData returns true exactly when the id was not in the catalog
\* just before the call, and the id is in the catalog after the call.
C20_AddedStatus ==
    [][ret'.op = "addItemData" =>
          /\ ret'.val = Bool(~Has(items, ret'.asin))
          /\ Has(items', ret'.asin)]_vars

\* addItemData has created the record of A after the clock moved, and has
\* returned true
C20_Witness ==
    /\ ret.op = "addItemData" /\ ret.asin = "A" /\ ret.val = Bool(TRUE)
    /\ Field(items, "A", "dateAdded") = Num(1)

\* C21: a call of connectWebSocket made while the country code is unset makes
\* no socket and leaves socket and socket_connecting as they were.
C21_NoAttemptWithoutCountry ==
    [][(connEvent'.op = "connectWebSocket" /\ country = "") =>
          /\ ~connEvent'.created
          /\ sockets' = sockets
          /\ socket' = socket
          /\ socket_connecting' = socket_connecting]_vars

\* connectWebSocket was called with notification.active set and no country
\* code, and nothing is connecting
C21_Witness ==
    /\ connEvent.op = "connectWebSocket"
    /\ active
    /\ country = ""
    /\ sockets = {}
    /\ ~socket_connecting

-----------------------------------------------------------------------------
(* Claims about the order of the catalog (SpecEtv) *)

\* The ids of the catalog in iteration order
Order(its) == [i \in 1..Len(its) |-> its[i].asin]

\* C22: sortItems keeps the relative order of two records that compare equal
\* under the sort type, and sortItems on a catalog that was just sorted under
\* the same sort type leaves the order as it is.
C22_SortStable ==
    [][ret'.op = "sortItems" =>
          /\ \A i, j \in 1..Len(items) :
                (i < j /\ Compare(items[i], items[j], sortType) = 0) =>
                    IndexOf(items', items[i].asin) < IndexOf(items', items[j].asin)
          /\ JustSorted => Order(items') = Order(items)]_vars

\* sortItems has run on two records that compare equal and were inserted B first
C22_Witness ==
    /\ ret.op = "sortItems"
    /\ Order(items) = <<"B", "A">>
    /\ sortType = TYPE_PRICE_DESC
    /\ Compare(items[1], items[2], sortType) = 0

\* The catalog is in the order of the comparator of the sort type
Sorted(its, st) == \A i \in 1..(Len(its) - 1) : Compare(its[i], its[i + 1], st) <= 0

\* C28, as stated: after every return of addItemData, updateItemETV and
\* updateItemTier, no adjacent pair of records is out of order under the sort
\* type configured at that moment.
C28_SortedAfterEveryReturn ==
    ret.op \in {"addItemData", "updateItemETV", "updateItemTier"} => Sorted(items, sortType)

\* C28, amended: after every return of addItemData, and of updateItemETV and
\* updateItemTier when they found the id and returned true, no adjacent pair of
\* records is out of order under the sort type configured at that moment.
C28_SortedAfterUpdate ==
    (\/ ret.op = "addItemData"
     \/ ret.op \in {"updateItemETV", "updateItemTier"} /\ ret.val = Bool(TRUE)) =>
        Sorted(items, sortType)

\* updateItemETV has returned true and the record it gave a value comes first
\* under price_desc
C28_Witness ==
    /\ ret.op = "updateItemETV" /\ ret.val = Bool(TRUE)
    /\ sortType = TYPE_PRICE_DESC
    /\ Order(items) = <<"A", "B">>
    /\ Compare(items[1], items[2], sortType) < 0

-----------------------------------------------------------------------------
(* Claims about calls that name an id the catalog does not hold (SpecStamp) *)

\* C23: updateItemETV, updateItemTier and storeItemDOMElement on an id that
\* is absent from the catalog leave the catalog (contents and order) as it
\* was; the two updates return false and storeItemDOMElement throws.
C23_AbsentIdIsNoOp ==
    [][(/\ ret'.op \in {"updateItemETV", "updateItemTier", "storeItemDOMElement"}
        /\ ~Has(items, ret'.asin)) =>
           /\ items' = items
           /\ ret'.val = IF ret'.op = "storeItemDOMElement" THEN Thrown ELSE Bool(FALSE)]_vars

\* storeItemDOMElement has thrown for an absent id while the catalog holds two
\* other records
C23_Witness ==
    /\ ret.op = "storeItemDOMElement"
    /\ ret.val = Thrown
    /\ ~Has(items, ret.asin)
    /\ Len(items) = 2

\* The ids the catalog holds
Ids(its) == {its[i].asin : i \in 1..Len(its)}

\* C24: the set of ids of the catalog changes only through addItemData, which
\* adds the id it was given, and removeAsin, which removes the id it was given
\* together with its element and tile; every other call leaves the set as it is.
C24_IdsChangeOnlyByAddAndRemove ==
    [][/\ ret'.op = "addItemData" => Ids(items') = Ids(items) \cup {ret'.asin}
       /\ ret'.op = "removeAsin" =>
             /\ Ids(items') = Ids(items) \ {ret'.asin}
             /\ GetItemDOMElement(items', ret'.asin) = Undef
             /\ GetItemTile(items', ret'.asin) = Undef
             /\ ~Has(items, ret'.asin) => items' = items
       /\ ret'.op \notin {"addItemData", "removeAsin"} => Ids(items') = Ids(items)]_vars

\* removeAsin has removed one record while another record stays
C24_Witness ==
    /\ ret.op = "removeAsin"
    /\ ret.asin = "A"
    /\ Ids(items) = {"B"}

-----------------------------------------------------------------------------
(* Claims about the websocket request of the auto-load (SpecRequest) *)

\* C25: when setReloadTimer emits reloadRequest, the socket it emits on is
\* connected at that moment and a monitor tab was found; none is emitted on a
\* socket that disconnected while findMonitorTab was pending.
C25_RequestOnConnectedSocket ==
    [][(awaiting' < awaiting /\ timerEvent'.emitted) =>
          SocketConnected(sockets', socket')]_vars

-----------------------------------------------------------------------------
(* Claims about reconnection (SpecConn) *)

\* A step has made a connection attempt: a socket that was not there is connecting
Attempted == \E s \in sockets' : s.state = "connecting" /\ s \notin sockets

\* C26: the disconnect and connect_error handlers make no connection attempt;
\* an attempt is made only by connectWebSocket called from the websocketReconnect
\* alarm or from init, with notification.active set and the socket not connected;
\* an alarm that finds the flag unset makes no attempt and leaves the socket
\* neither connected nor connecting.
C26_RetryOnlyByAlarm ==
    [][/\ connEvent'.op \in {"disconnect", "connect_error"} => ~Attempted
       /\ Attempted =>
             /\ connEvent'.op = "connectWebSocket"
             /\ connEvent'.by \in {"alarm", "init"}
             /\ active
             /\ ~SocketConnected(sockets, socket)
       /\ (connEvent'.by = "alarm" /\ ~active) =>
             /\ ~Attempted
             /\ \A s \in sockets' : s.id = socket' => s.state = "closed"]_vars

\* After the first socket closed or failed, the alarm has made the second attempt
C26_Witness ==
    /\ connEvent.op = "connectWebSocket"
    /\ connEvent.by = "alarm"
    /\ connEvent.created
    /\ socket = 2

\* C30: socket_connecting is set only while a socket is connecting, and an
\* alarm that fires with notification.active set, the country code known and
\* no socket connected or connecting makes a connection attempt, also after an
\* alarm has called socket.disconnect() on a socket that was still connecting.
C30_ReconnectionStaysPossible ==
    [][/\ socket_connecting' => \E s \in sockets' : s.state = "connecting"
       /\ (/\ connEvent'.op = "connectWebSocket"
           /\ connEvent'.by = "alarm"
           /\ active
           /\ country # ""
           /\ LiveSockets(sockets) = {}) => Attempted]_vars

-----------------------------------------------------------------------------
(* Claims about dataBuffering on its own (SpecDataBuffering) *)

\* C29: dataBuffer is empty whenever fetch100 is false: the sentinel received
\* while buffering posts the batch, empties dataBuffer and clears fetch100 in
\* one call, and a call made while fetch100 is false posts the event it was
\* given, the sentinel too, as one message of its own and stores nothing.
C29_EmptyInPassthrough ==
    [][/\ ~fetch100' => dataBuffer' = <<>>
       /\ (fetch100 /\ CallDataBuffering(Sentinel)) =>
             /\ ~fetch100'
             /\ dataBuffer' = <<>>
             /\ sent' = <<[type |-> "fetch100", data |-> Append(dataBuffer, Sentinel)]>>
       /\ \A data \in BufferEvents :
             (~fetch100 /\ CallDataBuffering(data)) =>
                 /\ sent' = <<data>>
                 /\ dataBuffer' = <<>>
                 /\ ~fetch100']_vars

\* A sentinel was received in passthrough state and posted as it is
C29_Witness ==
    /\ handler = "dataBuffering"
    /\ ~fetch100
    /\ sent = <<Sentinel>>
    /\ dataBuffer = <<>>

-----------------------------------------------------------------------------
(* Claims about the delay of the auto-load timer (SpecJitter) *)

\* C27: the timer a call of setReloadTimer leaves in reloadTimer has a delay of
\* 15 minutes when it is the timer of the closed window, and otherwise a delay
\* from notification.autoload.min to notification.autoload.max minutes, whatever
\* the two settings are.
C27_DelayWithinConfigured ==
    [][(timerEvent'.kind = "setReloadTimer" /\ timers' # timers) =>
          \E t \in timers' :
             /\ t.id = reloadTimer'
             /\ IF t.kind = "reset"
                THEN t.left = OUT_OF_RANGE_DELAY
                ELSE autoloadMin <= t.left /\ t.left <= autoloadMax]_vars

-----------------------------------------------------------------------------
(* Claims about SettingsMgr.set (SpecSet) *)

\* C31: once no set call is pending, get returns at every path the value of the
\* last set call that wrote it, and the stored settings hold it too, also when
\* two calls on different paths were made without awaiting each other.
C31_BothSetsTakeEffect ==
    setCalls = <<>> =>
        \A path \in SettingPaths :
            /\ settings[path] = lastSet[path]
            /\ storage[path] = lastSet[path]

-----------------------------------------------------------------------------
(* Claims about the end of setReloadTimer (SpecTimer) *)

\* C32: when an execution of setReloadTimer ends, be it at its return outside
\* the window, at its end without a websocket request, or after the await of
\* findMonitorTab whatever that gave (a tab, no tab, a failure), exactly one
\* timer that will run setReloadTimer again is pending.
C32_OneReloadTimerAfterEachRun ==
    [][(\/ awaiting' < awaiting
        \/ /\ timerEvent'.kind = "setReloadTimer"
           /\ timers' # timers
           /\ awaiting' = awaiting) =>
          Cardinality({t \in timers' : t.kind \in {"reset", "jitter"}}) = 1]_vars

-----------------------------------------------------------------------------
(* Claims about processLast100Items (SpecBuffer) *)

\* The indices (counted from 0) of the products that are not skipped
FedIndices(arr) == {i \in 0..(Len(arr) - 1) : ~Skipped(arr[i + 1])}

\* C33: when processLast100Items ends, what it fed is one batch: a newItem
\* message for every product that has a title and an image and for no other,
\* each once, with dates that never decrease from one message to the next,
\* and then the sentinel, once and last, also when there was no product; the
\* buffering that the run started is over, and buffering is on during such a
\* run only.
C33_SnapshotOldestFirstThenSentinel ==
    [][/\ (handler = "last100" /\ handler' = "last100 done") =>
            /\ Len(sent') = 1
            /\ sent'[1].type = "fetch100"
            /\ LET batch == sent'[1].data
                   n == Len(batch)
               IN /\ n = Cardinality(FedIndices(arrProducts)) + 1
                  /\ batch[n] = Sentinel
                  /\ \A k \in 1..(n - 1) : batch[k].type = "newItem"
                  /\ {batch[k].index : k \in 1..(n - 1)} = FedIndices(arrProducts)
                  /\ \A k, l \in 1..(n - 1) :
                        k < l => arrProducts[batch[k].index + 1].date
                                    <= arrProducts[batch[l].index + 1].date
            /\ ~fetch100'
            /\ dataBuffer' = <<>>
       /\ fetch100' => handler' = "last100"]_vars

\* A snapshot of three products, the middle one skipped, was fed and ended
C33_Witness ==
    /\ handler = "last100 done"
    /\ ~fetch100
    /\ Len(sent) = 1
    /\ sent[1].type = "fetch100"
    /\ Len(sent[1].data) = 3
    /\ sent[1].data[1].index = 2
    /\ sent[1].data[2].index = 0
    /\ sent[1].data[1].asin # sent[1].data[2].asin
    /\ sent[1].data[3] = Sentinel

====
